---- MODULE Spec2Model ----
(***************************************************************************)
(* Photo Fusion AI: the image-submission workflow.                         *)
(*                                                                         *)
(*   App (Session Controller)      App.tsx  (src/unnamed/part_000)         *)
(*   ImageUploader (Image Intake)  src/components/ImageUploader.tsx        *)
(*   generateEditedImage (Client)  src/services/geminiService.ts           *)
(*                                                                         *)
(* Execution is single threaded and event driven.  Every action below is   *)
(* one run-to-completion step of the event loop: a DOM event handler, a    *)
(* FileReader callback, or the continuation of handleGenerate after one    *)
(* of its awaits.  The React state setters called in one such step are     *)
(* committed together (automatic batching), so a step is atomic.           *)
(*                                                                         *)
(* Strings that the code takes apart or puts together (media types, data   *)
(* URLs) are sequences of tokens; a value that may be null/undefined is a  *)
(* sequence of length 0 (absent) or 1 (present).                           *)
(***************************************************************************)
EXTENDS Integers, Sequences, FiniteSets, Bags

VARIABLES
    images,          \* [slot -> ImageFile | null]: baseImage, logoImage (useState)
    prompt,          \* the instruction text (useState)
    generatedImage,  \* string | null (useState)
    isLoading,       \* boolean (useState)
    error,           \* string | null (useState)
    readers,         \* bag of the pending preview FileReaders, each [slot, file]
    calls,           \* suspended handleGenerate invocations, oldest first
    alertShown,      \* an alert("File size exceeds 4MB...") has been shown
    lastUser,        \* observer: per slot, the file name the user's latest
                     \* select or remove asks for (null after a remove)
    lastOutcome      \* observer: how the latest settled remote call settled

vars == <<images, prompt, generatedImage, isLoading, error, readers, calls, alertShown,
          lastUser, lastOutcome>>

\* The observers record what happened; no action of the program reads them.
observers == <<lastUser, lastOutcome>>

-----------------------------------------------------------------------------
(* Bounds of the model *)

MaxPending == 1         \* preview reads pending at once, in the whole program
MaxPendingIntake == 2   \* preview reads pending at once, in Image Intake alone
MaxCalls == 2           \* handleGenerate invocations suspended at once
MaxParts == 2           \* content parts in a simulated remote response

-----------------------------------------------------------------------------
(* Optional values and token strings *)

Null == <<>>
Some(x) == <<x>>
IsNull(o) == Len(o) = 0
Val(o) == o[1]

StartsWith(s, prefix) ==
    /\ Len(s) >= Len(prefix)
    /\ SubSeq(s, 1, Len(prefix)) = prefix

\* String.prototype.split(sep) for a one-token separator: the list of the
\* pieces between the separators.
RECURSIVE Split(_, _)
Split(s, sep) ==
    IF \A i \in 1..Len(s) : s[i] # sep
        THEN <<s>>
        ELSE LET k == CHOOSE i \in 1..Len(s) :
                          /\ s[i] = sep
                          /\ \A j \in 1..(i - 1) : s[j] # sep
             IN  <<SubSeq(s, 1, k - 1)>> \o Split(SubSeq(s, k + 1, Len(s)), sep)

\* arr[i] with JavaScript's 0-based index; undefined when out of range.
At(arr, i) == IF i + 1 \in 1..Len(arr) THEN Some(arr[i + 1]) ELSE Null

-----------------------------------------------------------------------------
(* Files the user can offer *)

SizeLimit == 4 * 1024 * 1024

ImagePrefix == <<"image", "/">>

FileA == [name |-> "a.png",  size |-> SizeLimit,     type |-> <<"image", "/", "png">>,  bytes |-> "AAA"]
FileB == [name |-> "b.gif",  size |-> 1000,          type |-> <<"image", "/", "gif">>,  bytes |-> "BBB"]
FileC == [name |-> "c.jpg",  size |-> SizeLimit + 1, type |-> <<"image", "/", "jpeg">>, bytes |-> "CCC"]
FileD == [name |-> "d.txt",  size |-> 5000000,       type |-> <<"text", "/", "plain">>, bytes |-> "DDD"]

Files == {FileA, FileB, FileC, FileD}

\* The base64 text of a file's bytes, as FileReader.readAsDataURL produces it
\* (one token).
Base64(bytes) ==
    CASE bytes = "AAA" -> "QUFB"
      [] bytes = "BBB" -> "QkJC"
      [] bytes = "CCC" -> "Q0ND"
      [] bytes = "DDD" -> "RERE"

\* FileReader.result after a successful readAsDataURL(file).
ReadAsDataURL(file) == <<"data:">> \o file.type \o <<";base64", ",", Base64(file.bytes)>>

\* A FileReader ends a read with load or with error.  (abort is dispatched
\* only by FileReader.abort(), which no code of the program calls.)
ReadOutcomes == {"load", "error"}

Slots == {"base", "logo"}

baseImage == images["base"]
logoImage == images["logo"]

-----------------------------------------------------------------------------
(* ImageUploader: Image Intake (one instance per slot) *)

\* FileChangeAccepts without the size check.
FileChangeAcceptsAnySize(file) == TRUE

\* handleFileChange goes on to read the file unless it is over the limit.
FileChangeAccepts(file) == ~(file.size > SizeLimit)

\* handleDrop looks only at a file whose type starts with "image/" ...
DropTypeOk(file) == StartsWith(file.type, ImagePrefix)

\* ... and reads it unless it is over the limit.
DropSizeOk(file) == ~(file.size > SizeLimit)

\* new FileReader(); reader.onloadend = ...; reader.readAsDataURL(file)
StartPreviewRead(slot, file) == readers (+) SetToBag({[slot |-> slot, file |-> file]})

\* onImageUpload is setBaseImage or setLogoImage.
OnImageUpload(slot, image) == [images EXCEPT ![slot] = image]

\* reader.onloadend: reader.result is the data URL, or null after an error.
PreviewResult(file, outcome) ==
    IF outcome = "load" THEN Some(ReadAsDataURL(file)) ELSE Null

RemoveAt(s, i) == SubSeq(s, 1, i - 1) \o SubSeq(s, i + 1, Len(s))

\* The change event of the file input; candidate is event.target.files?.[0].
HandleFileChange(slot, candidate) ==
    /\ IF IsNull(candidate)
         THEN UNCHANGED <<readers, alertShown>>
         ELSE IF ~FileChangeAccepts(Val(candidate))
         THEN /\ alertShown' = TRUE
              /\ UNCHANGED readers
         ELSE /\ readers' = StartPreviewRead(slot, Val(candidate))
              /\ UNCHANGED alertShown
    /\ UNCHANGED <<images, prompt, generatedImage, isLoading, error, calls>>

\* The drop event; candidate is event.dataTransfer.files?.[0].
HandleDrop(slot, candidate) ==
    /\ IF IsNull(candidate) \/ ~DropTypeOk(Val(candidate))
         THEN UNCHANGED <<readers, alertShown>>
         ELSE IF ~DropSizeOk(Val(candidate))
         THEN /\ alertShown' = TRUE
              /\ UNCHANGED readers
         ELSE /\ readers' = StartPreviewRead(slot, Val(candidate))
              /\ UNCHANGED alertShown
    /\ UNCHANGED <<images, prompt, generatedImage, isLoading, error, calls>>

\* The remove button, rendered only while the slot holds an image.
\* (It also empties the file input's value, a DOM field no handler reads.)
HandleRemove(slot) ==
    /\ ~IsNull(images[slot])
    /\ images' = OnImageUpload(slot, Null)
    /\ UNCHANGED <<readers, prompt, generatedImage, isLoading, error, calls, alertShown>>

\* reader.onloadend of the pending preview read r.
PreviewLoadEnd(r, outcome) ==
    /\ BagIn(r, readers)
    /\ images' = OnImageUpload(r.slot,
           Some([file |-> r.file, preview |-> PreviewResult(r.file, outcome)]))
    /\ readers' = readers (-) SetToBag({r})
    /\ UNCHANGED <<prompt, generatedImage, isLoading, error, calls, alertShown>>

-----------------------------------------------------------------------------
(* generateEditedImage: the Edit Request Client *)

NoImageMessage == "No image was generated in the response."
UnknownErrorMessage == "An unknown error occurred while generating the image."

PngType == <<"image", "/", "png">>
JpegType == <<"image", "/", "jpeg">>

\* Content parts a response may carry: a part has an optional text and an
\* optional inlineData.
TextPart == [text |-> Some("Here is your image."), inlineData |-> Null]
InlinePartP == [text |-> Null, inlineData |-> Some([data |-> <<"iVBORw0K">>, mimeType |-> PngType])]
InlinePartJ == [text |-> Null, inlineData |-> Some([data |-> <<"/9j/4AAQ">>, mimeType |-> JpegType])]

Parts == {TextPart, InlinePartP, InlinePartJ}

PartSeqs == UNION {[1..n -> Parts] : n \in 0..MaxParts}

\* GenerateContentResponse shapes: every link of candidates?.[0]?.content?.parts
\* may be missing.
Responses ==
    {[candidates |-> Null],
     [candidates |-> Some(<<>>)],
     [candidates |-> Some(<<[content |-> Null]>>)],
     [candidates |-> Some(<<[content |-> Some([parts |-> Null])]>>)]}
    \cup {[candidates |-> Some(<<[content |-> Some([parts |-> Some(ps)])]>>)] : ps \in PartSeqs}

\* Values that ai.models.generateContent may throw: an Error, or something else.
Thrown ==
    {[type |-> "Error", text |-> "API quota exceeded"],
     [type |-> "string", text |-> "socket closed"]}

\* How the awaited ai.models.generateContent(...) settles.
RemoteOutcomes ==
    {[kind |-> "response", response |-> Some(r), thrown |-> Null] : r \in Responses}
    \cup {[kind |-> "throw", response |-> Null, thrown |-> Some(t)] : t \in Thrown}

\* response.candidates?.[0]?.content?.parts || []
PartsOf(response) ==
    IF IsNull(response.candidates) THEN <<>>
    ELSE LET first == At(Val(response.candidates), 0)
         IN  IF IsNull(first) THEN <<>>
             ELSE IF IsNull(Val(first).content) THEN <<>>
             ELSE IF IsNull(Val(Val(first).content).parts) THEN <<>>
             ELSE Val(Val(Val(first).content).parts)

\* `data:${mimeType};base64,${base64ImageBytes}`
DataUri(mimeType, base64ImageBytes) ==
    <<"data:">> \o mimeType \o <<";base64", ",">> \o base64ImageBytes

Resolve(value) == [ok |-> TRUE, value |-> Some(value), reason |-> Null]
Reject(reason) == [ok |-> FALSE, value |-> Null, reason |-> Some(reason)]

\* ClientCatch without the instanceof test: every failure is "unknown".
ClientCatchUnknown(thrown) == Reject([type |-> "string", text |-> UnknownErrorMessage])

\* The catch block of generateEditedImage: rejects with a string.
ClientCatch(thrown) ==
    IF thrown.type = "Error"
        THEN Reject([type |-> "string", text |-> thrown.text])
        ELSE Reject([type |-> "string", text |-> UnknownErrorMessage])

\* ScanParts keeping the last inline part instead of returning at the first.
ScanPartsLast(parts, i) ==
    LET inl == {k \in i..Len(parts) : ~IsNull(parts[k].inlineData)}
    IN  IF inl = {}
            THEN Reject([type |-> "string", text |-> NoImageMessage])
            ELSE LET k == CHOOSE k \in inl : \A j \in inl : j <= k
                 IN  Resolve(<<"data:">> \o Val(parts[k].inlineData).mimeType
                             \o <<";base64", ",">> \o Val(parts[k].inlineData).data)

\* for (const part of parts) { if (part.inlineData) return ...; } throw new Error(...)
RECURSIVE ScanParts(_, _)
ScanParts(parts, i) ==
    IF i > Len(parts)
        THEN ClientCatch([type |-> "Error", text |-> NoImageMessage])
    ELSE IF ~IsNull(parts[i].inlineData)
        THEN Resolve(DataUri(Val(parts[i].inlineData).mimeType, Val(parts[i].inlineData).data))
    ELSE ScanParts(parts, i + 1)

\* generateEditedImage, from the settling of the remote call to its own.
GenerateEditedImage(outcome) ==
    IF outcome.kind = "throw"
        THEN ClientCatch(Val(outcome.thrown))
        ELSE ScanParts(PartsOf(Val(outcome.response)), 1)

\* The multi-part payload handed to ai.models.generateContent.
RequestParts(baseEnc, logoEnc, text) ==
    <<[kind |-> "inlineData", inlineData |-> Some(baseEnc), text |-> Null],
      [kind |-> "inlineData", inlineData |-> Some(logoEnc), text |-> Null],
      [kind |-> "text", inlineData |-> Null, text |-> Some(text)]>>

-----------------------------------------------------------------------------
(* App: the Session Controller *)

DefaultPrompt == "Take the first image of the person. Add the logo ..."
Prompts == {DefaultPrompt, ""}

MissingInputMessage == "Please provide a base image, a logo image, and a prompt."

\* fileToBase64: the promise settles on reader.onload or reader.onerror.
FileToBase64(file, outcome) ==
    IF outcome = "load"
        THEN Resolve([data |-> At(Split(ReadAsDataURL(file), ","), 1), mimeType |-> file.type])
        ELSE Reject([type |-> "ProgressEvent", text |-> ""])

\* String(err) of a rejection value that is no Error.
StringOf(err) ==
    IF err.type = "string" THEN err.text ELSE "[object ProgressEvent]"

\* catch (err): err instanceof Error ? err.message : String(err)
ErrorText(err) == IF err.type = "Error" THEN err.text ELSE StringOf(err)

\* ButtonDisabled without the isLoading test.
ButtonDisabledUnlessLoading == IsNull(images["base"]) \/ IsNull(images["logo"])

\* disabled={isLoading || !baseImage || !logoImage}
ButtonDisabled == isLoading \/ IsNull(baseImage) \/ IsNull(logoImage)

\* MissingInput without the prompt test.
MissingInputIgnoringPrompt == IsNull(images["base"]) \/ IsNull(images["logo"])

\* if (!baseImage || !logoImage || !prompt)
MissingInput == IsNull(baseImage) \/ IsNull(logoImage) \/ prompt = ""

NewCall ==
    [pc |-> "encBase", base |-> Val(baseImage).file, logo |-> Val(logoImage).file,
     prompt |-> prompt, baseEnc |-> Null, logoEnc |-> Null, request |-> Null]

\* handleGenerate up to its return or its first await.
HandleGenerate ==
    IF MissingInput
        THEN /\ error' = Some(MissingInputMessage)
             /\ UNCHANGED <<isLoading, generatedImage, calls>>
        ELSE /\ isLoading' = TRUE
             /\ error' = Null
             /\ generatedImage' = Null
             /\ calls' = Append(calls, NewCall)

\* A click on the submit button.
ClickGenerate ==
    /\ ~ButtonDisabled
    /\ HandleGenerate
    /\ UNCHANGED <<images, prompt, readers, alertShown>>

\* onChange of the instruction textarea.
SetPrompt(p) ==
    /\ p # prompt
    /\ prompt' = p
    /\ UNCHANGED <<images, generatedImage, isLoading, error, readers, calls, alertShown>>

\* FailCall without the finally block.
FailCallNoFinally(i, err) ==
    /\ error' = Some(ErrorText(err))
    /\ calls' = RemoveAt(calls, i)
    /\ UNCHANGED <<isLoading, generatedImage>>

\* catch { setError(...) } finally { setIsLoading(false) }, ending call i.
FailCall(i, err) ==
    /\ error' = Some(ErrorText(err))
    /\ isLoading' = FALSE
    /\ calls' = RemoveAt(calls, i)
    /\ UNCHANGED generatedImage

\* What handleGenerate does when the base image's encoding settles with r.
AfterBaseEncoding(i, r) ==
    IF r.ok
        THEN /\ calls' = [calls EXCEPT ![i] = [@ EXCEPT !.pc = "encLogo", !.baseEnc = r.value]]
             /\ UNCHANGED <<isLoading, error, generatedImage>>
        ELSE FailCall(i, Val(r.reason))

\* AfterLogoEncoding without the rejection: the call goes on to the remote
\* call whatever the encoding gave.
AfterLogoEncodingUnchecked(i, r) ==
    /\ calls' = [calls EXCEPT ![i] = [@ EXCEPT !.pc = "remote", !.logoEnc = r.value]]
    /\ UNCHANGED <<isLoading, error, generatedImage>>

\* What handleGenerate does when the logo image's encoding settles with r.
AfterLogoEncoding(i, r) ==
    IF r.ok
        THEN /\ calls' = [calls EXCEPT ![i] =
                    [@ EXCEPT !.pc = "remote", !.logoEnc = r.value,
                              !.request = Some(RequestParts(Val(calls[i].baseEnc), Val(r.value),
                                                            calls[i].prompt))]]
             /\ UNCHANGED <<isLoading, error, generatedImage>>
        ELSE FailCall(i, Val(r.reason))

\* What handleGenerate does when generateEditedImage settles with r.
AfterClient(i, r) ==
    IF r.ok
        THEN /\ generatedImage' = r.value
             /\ isLoading' = FALSE
             /\ calls' = RemoveAt(calls, i)
             /\ UNCHANGED error
        ELSE FailCall(i, Val(r.reason))

\* await fileToBase64(baseImage.file) settles in call i.
BaseEncoded(i, outcome) ==
    /\ i \in 1..Len(calls)
    /\ calls[i].pc = "encBase"
    /\ AfterBaseEncoding(i, FileToBase64(calls[i].base, outcome))
    /\ UNCHANGED <<images, prompt, readers, alertShown>>

\* await fileToBase64(logoImage.file) settles in call i.
LogoEncoded(i, outcome) ==
    /\ i \in 1..Len(calls)
    /\ calls[i].pc = "encLogo"
    /\ AfterLogoEncoding(i, FileToBase64(calls[i].logo, outcome))
    /\ UNCHANGED <<images, prompt, readers, alertShown>>

\* await generateEditedImage(...) settles in call i.
RemoteSettled(i, outcome) ==
    /\ i \in 1..Len(calls)
    /\ calls[i].pc = "remote"
    /\ AfterClient(i, GenerateEditedImage(outcome))
    /\ UNCHANGED <<images, prompt, readers, alertShown>>

-----------------------------------------------------------------------------
(* The program *)

Candidates == {Null} \cup {Some(f) : f \in Files}

Init ==
    /\ images = [s \in Slots |-> Null]
    /\ prompt = DefaultPrompt
    /\ generatedImage = Null
    /\ isLoading = FALSE
    /\ error = Null
    /\ readers = EmptyBag
    /\ calls = <<>>
    /\ alertShown = FALSE
    /\ lastUser = [s \in Slots |-> Null]
    /\ lastOutcome = Null

\* The model follows at most n pending preview reads.
PendingWithin(n) == BagCardinality(readers') <= n

Readers == [slot : Slots, file : Files]

\* The steps that end an await of handleGenerate.
BaseEncodedStep ==
    \E i \in 1..MaxCalls, o \in ReadOutcomes : BaseEncoded(i, o) /\ UNCHANGED observers
LogoEncodedStep ==
    \E i \in 1..MaxCalls, o \in ReadOutcomes : LogoEncoded(i, o) /\ UNCHANGED observers
RemoteSettledStep ==
    \E i \in 1..MaxCalls, o \in RemoteOutcomes : RemoteSettled(i, o) /\ UNCHANGED observers

\* A step of the program.
Next ==
    \/ \E s \in Slots, c \in Candidates :
          HandleFileChange(s, c) /\ PendingWithin(MaxPending) /\ UNCHANGED observers
    \/ \E s \in Slots, c \in Candidates :
          HandleDrop(s, c) /\ PendingWithin(MaxPending) /\ UNCHANGED observers
    \/ \E s \in Slots : HandleRemove(s) /\ UNCHANGED observers
    \/ \E r \in Readers, o \in ReadOutcomes : PreviewLoadEnd(r, o) /\ UNCHANGED observers
    \/ \E p \in Prompts : SetPrompt(p) /\ UNCHANGED observers
    \/ ClickGenerate /\ Len(calls') <= MaxCalls /\ UNCHANGED observers
    \/ BaseEncodedStep
    \/ LogoEncodedStep
    \/ RemoteSettledStep

Spec == Init /\ [][Next]_vars

\* The program with the scheduling the event loop gives it: a file read that
\* was started ends, and the remote call settles.
FairSpec ==
    /\ Spec
    /\ WF_vars(BaseEncodedStep)
    /\ WF_vars(LogoEncodedStep)
    /\ WF_vars(RemoteSettledStep)

-----------------------------------------------------------------------------
(* Image Intake observed: the two ImageUploaders with the workflow left idle,
   and lastUser recording what the user asked for. *)

\* A selection counts when the intake went on to read the file.
ObserveSelect(slot, candidate) ==
    lastUser' = IF readers' # readers
                    THEN [lastUser EXCEPT ![slot] = Some(Val(candidate).name)]
                    ELSE lastUser

ObserveRemove(slot) == lastUser' = [lastUser EXCEPT ![slot] = Null]

NextIntake ==
    \/ \E s \in Slots, c \in Candidates :
          /\ HandleFileChange(s, c) /\ PendingWithin(MaxPendingIntake)
          /\ ObserveSelect(s, c) /\ UNCHANGED lastOutcome
    \/ \E s \in Slots, c \in Candidates :
          /\ HandleDrop(s, c) /\ PendingWithin(MaxPendingIntake)
          /\ ObserveSelect(s, c) /\ UNCHANGED lastOutcome
    \/ \E s \in Slots : HandleRemove(s) /\ ObserveRemove(s) /\ UNCHANGED lastOutcome
    \/ \E r \in Readers, o \in ReadOutcomes : PreviewLoadEnd(r, o) /\ UNCHANGED observers

SpecIntake == Init /\ [][NextIntake]_vars

-----------------------------------------------------------------------------
(* The submission workflow observed: both images are already selected, and
   lastOutcome records how each remote call settled. *)

\* An image whose preview read has loaded.
Loaded(file) == Some([file |-> file, preview |-> PreviewResult(file, "load")])

InitClient ==
    /\ images \in [Slots -> {Loaded(FileA), Loaded(FileB)}]
    /\ prompt = DefaultPrompt
    /\ generatedImage = Null
    /\ isLoading = FALSE
    /\ error = Null
    /\ readers = EmptyBag
    /\ calls = <<>>
    /\ alertShown = FALSE
    /\ lastUser = [s \in Slots |-> Some(Val(images[s]).file.name)]
    /\ lastOutcome = Null

NextClient ==
    \/ \E p \in Prompts : SetPrompt(p) /\ UNCHANGED observers
    \/ ClickGenerate /\ Len(calls') <= MaxCalls /\ UNCHANGED observers
    \/ \E i \in 1..MaxCalls, o \in ReadOutcomes : BaseEncoded(i, o) /\ UNCHANGED observers
    \/ \E i \in 1..MaxCalls, o \in ReadOutcomes : LogoEncoded(i, o) /\ UNCHANGED observers
    \/ \E i \in 1..MaxCalls, o \in RemoteOutcomes :
          RemoteSettled(i, o) /\ lastOutcome' = Some(o) /\ UNCHANGED lastUser

SpecClient == InitClient /\ [][NextClient]_vars

-----------------------------------------------------------------------------
(* Properties *)

\* A well-formed response whose first candidate carries the parts ps.
ResponseWith(ps) == [candidates |-> Some(<<[content |-> Some([parts |-> Some(ps)])]>>)]

AsOutcome(response) == [kind |-> "response", response |-> Some(response), thrown |-> Null]

InlineIndexes(ps) == {k \in 1..Len(ps) : ~IsNull(ps[k].inlineData)}

\* A response with no inline-image part: no candidates, no content, no parts,
\* or parts none of which carries inline data.
ZeroInlineResponses ==
    {r \in Responses : \A ps \in PartSeqs : r = ResponseWith(ps) => InlineIndexes(ps) = {}}

BothSelected == ~IsNull(images["base"]) /\ ~IsNull(images["logo"])

\* C1: at most one edit request is in flight: while isLoading holds exactly one
\* call is suspended, and a submission cannot be made (the submit button is
\* disabled), so no second encoding or remote call starts.
C1_OneRequestInFlight ==
    /\ Len(calls) <= 1
    /\ isLoading <=> Len(calls) = 1
    /\ isLoading => ~ENABLED ClickGenerate

\* C1 witness: loading, with every input of a further submission present.
C1_Witness == isLoading /\ Len(calls) = 1 /\ BothSelected /\ prompt # ""

\* C2 as claimed: a submission with a missing input leaves isLoading, error and
\* generatedImage as they were and starts no request.
C2_MissingInputNoOp ==
    [][((~BothSelected \/ prompt = "") /\ ClickGenerate)
          => UNCHANGED <<isLoading, error, generatedImage, calls>>]_vars

\* C2 amended: a submission with a missing input sets error to the
\* missing-input message, leaves isLoading and generatedImage as they were and
\* starts no request.
C2_MissingInputSetsError ==
    [][((~BothSelected \/ prompt = "") /\ ClickGenerate)
          => /\ error' = Some(MissingInputMessage)
             /\ UNCHANGED <<isLoading, generatedImage, calls>>]_vars

\* C2 witness: the missing-input message is shown.
C2_Witness == error = Some(MissingInputMessage) /\ ~isLoading /\ calls = <<>>

\* C3: whenever error becomes non-null, generatedImage is null in that state.
C3_FailureClearsResult ==
    [][(~IsNull(error') /\ error' # error) => IsNull(generatedImage')]_vars

\* C4: at most one of isLoading, error non-null, generatedImage non-null holds.
C4_OneWorkflowState ==
    /\ ~(isLoading /\ ~IsNull(error))
    /\ ~(isLoading /\ ~IsNull(generatedImage))
    /\ ~(~IsNull(error) /\ ~IsNull(generatedImage))

\* A step in which a remote call settles.
Settles == \E i \in 1..Len(calls) : calls[i].pc = "remote" /\ calls' = RemoveAt(calls, i)

\* C5: when the remote call settles with a response whose first candidate has
\* at least one inline part, the result becomes data:<mediaType>;base64,<content>
\* of the first such part.
C5_FirstInlinePart ==
    [][Settles => \A ps \in PartSeqs :
          (InlineIndexes(ps) # {} /\ lastOutcome' = Some(AsOutcome(ResponseWith(ps))))
          => LET k == CHOOSE k \in InlineIndexes(ps) : \A j \in InlineIndexes(ps) : k <= j
                 uri == <<"data:">> \o Val(ps[k].inlineData).mimeType
                        \o <<";base64", ",">> \o Val(ps[k].inlineData).data
             IN  generatedImage' = Some(uri) /\ IsNull(error')]_vars

\* C5 witness: of a JPEG part followed by a PNG part, the result is the JPEG.
C5_Witness ==
    /\ lastOutcome = Some(AsOutcome(ResponseWith(<<InlinePartJ, InlinePartP>>)))
    /\ generatedImage = Some(<<"data:", "image", "/", "jpeg", ";base64", ",", "/9j/4AAQ">>)

\* C6: when the remote call settles with a response that has no inline part,
\* the workflow leaves Loading with error equal to the no-image message and
\* generatedImage null.
C6_NoImageFails ==
    [][Settles => \A r \in ZeroInlineResponses :
          lastOutcome' = Some(AsOutcome(r))
          => /\ ~isLoading'
             /\ error' = Some(NoImageMessage)
             /\ IsNull(generatedImage')]_vars

\* C6 witness: the workflow has failed with the no-image message.
C6_Witness ==
    /\ lastOutcome = Some(AsOutcome(ResponseWith(<<TextPart>>)))
    /\ ~isLoading /\ error = Some(NoImageMessage) /\ IsNull(generatedImage)

\* The payload fileToBase64 resolves to for a file.
EncodingOf(file) == Some([data |-> Some(<<Base64(file.bytes)>>), mimeType |-> file.type])

\* C7: a call is at the remote call only with both encodings resolved, and
\* gets there only by the logo encoding resolving after the base encoding did;
\* a failed encoding ends the call with an error and no remote call.
C7_RemoteAfterBothEncodings ==
    [][/\ \A i \in 1..Len(calls') :
            calls'[i].pc = "remote"
            => /\ calls'[i].baseEnc = EncodingOf(calls'[i].base)
               /\ calls'[i].logoEnc = EncodingOf(calls'[i].logo)
               /\ i <= Len(calls)
               /\ \/ calls[i] = calls'[i]
                  \/ /\ calls[i].pc = "encLogo"
                     /\ calls[i].baseEnc = EncodingOf(calls[i].base)
       /\ \A i \in 1..Len(calls) :
            (BaseEncoded(i, "error") \/ LogoEncoded(i, "error"))
            => /\ calls' = RemoveAt(calls, i)
               /\ ~IsNull(error')
               /\ ~isLoading']_vars

\* C7 witness: the remote call is outstanding.
C7_Witness == Len(calls) = 1 /\ calls[1].pc = "remote" /\ ~IsNull(calls[1].request)

\* C8: a file over 4 MiB offered through the picker or by drag and drop starts
\* no read and leaves both slots as they were; a file of exactly 4 MiB (an
\* image, for a drop) is read.
C8_OversizeRejected ==
    [][\A s \in Slots, f \in Files :
          /\ (f.size > SizeLimit /\ (HandleFileChange(s, Some(f)) \/ HandleDrop(s, Some(f))))
             => UNCHANGED <<images, readers>>
          /\ (f.size = SizeLimit /\ HandleFileChange(s, Some(f)))
             => readers' = readers (+) SetToBag({[slot |-> s, file |-> f]})
          /\ (f.size = SizeLimit /\ f.type[1] = "image" /\ HandleDrop(s, Some(f)))
             => readers' = readers (+) SetToBag({[slot |-> s, file |-> f]})]_vars

\* C8 witness: an oversize file has been refused; nothing is read or selected.
C8_Witness == alertShown /\ readers = EmptyBag /\ \A s \in Slots : IsNull(images[s])

\* C9: a suspended call keeps the workflow Loading, and Loading always leads
\* to not Loading with a result or an error.
C9_LoadingEnds ==
    /\ [](Len(calls) > 0 => isLoading)
    /\ isLoading ~> (~isLoading /\ (~IsNull(generatedImage) \/ ~IsNull(error)))

\* C9 witness: a submission has ended, here by a failed file read.
C9_Witness == ~isLoading /\ calls = <<>> /\ error = Some("[object ProgressEvent]")

PendingOn(s) == \E r \in BagToSet(readers) : r.slot = s

\* C10: a slot the user last emptied (or never filled) is null, and once no
\* read is pending a slot holds the file the user selected last.
C10_SlotReflectsLatestAction ==
    \A s \in Slots :
        /\ IsNull(lastUser[s]) => IsNull(images[s])
        /\ (~IsNull(lastUser[s]) /\ ~PendingOn(s))
           => /\ ~IsNull(images[s])
              /\ Val(images[s]).file.name = Val(lastUser[s])

====
